---- MODULE Spec2Model ----
(***************************************************************************)
(* Model of the OpenCL builtin table generator (BuiltinNameEmitter) and of *)
(* the two functions it generates, isOpenCLBuiltin and OCL2Qual.           *)
(*                                                                         *)
(* A TableGen Record is identified by its position in the list the         *)
(* RecordKeeper hands out: a Record* of class "Type" is an index into      *)
(* Types, a Record* of class "Builtin" an index into Builtins.  Comparing  *)
(* two Record* is comparing two indices.                                   *)
(***************************************************************************)
EXTENDS Integers, Sequences, FiniteSets, TLC

VARIABLES
    Types,            \* Records.getAllDerivedDefinitions("Type")
    Builtins,         \* Records.getAllDerivedDefinitions("Builtin")
    pc,               \* "init", "done" (Emit returned) or "aborted" (fatal error)
    SignatureSet,     \* member SignatureSet: <<Signature, cumulative index>>
    OverloadInfo,     \* member OverloadInfo: <<name, <<B, SignIndex>>...>>
    OS,               \* the parts written to the output stream, in order
    OpenCLTypeID,     \* generated enum OpenCLTypeID
    OpenCLSignature,  \* generated table OpenCLSignature[]
    OpenCLBuiltins,   \* generated table OpenCLBuiltins[]
    ValidBuiltins,    \* the string pairs handed to the StringMatcher
    QualCases,        \* the case labels generated into OCL2Qual's switch
    call              \* the last call a consumer made of a generated function

vars == <<Types, Builtins, pc, SignatureSet, OverloadInfo, OS, OpenCLTypeID,
          OpenCLSignature, OpenCLBuiltins, ValidBuiltins, QualCases, call>>

(***************************************************************************)
(* Bounds and input sets.                                                  *)
(***************************************************************************)
MaxBuiltins == 3
MaxTypes == 2

TypeNames == {"float", "int"}
VecWidths == {0, 4}
AddrSpaces == {"Default", "Global"}
QTNames == {"FloatTy", "IntTy", "null"}
BuiltinNames == {"cos", "sin"}
LookupNames == BuiltinNames \cup {"tan"}
Arities == {1, 2}
Versions == {100}
Extensions == {""}

SeqUpTo(S, n) == UNION {[1..k -> S] : k \in 0..n}

\* A record of TableGen class "Type".
TypeRecords ==
    [Name : TypeNames, VecWidth : VecWidths, AddrSpace : AddrSpaces,
     IsPointer : BOOLEAN, QTName : QTNames]

\* The concrete type a well-formed catalog gives a type name.
QTOf(n) == IF n = "float" THEN "FloatTy" ELSE "IntTy"

\* Scalar, non-pointer type declarations with their usual concrete type.
PlainTypeRecords ==
    {r \in TypeRecords : r.VecWidth = 0 /\ r.AddrSpace = "Default"
                         /\ ~r.IsPointer /\ r.QTName = QTOf(r.Name)}

\* A record of TableGen class "Builtin" over n type records.  Version is
\* <<v>> when the field holds a def and <<>> when it does not.
BuiltinRecords(n, vs) ==
    [Name : BuiltinNames,
     Signature : UNION {[1..k -> 1..n] : k \in Arities},
     Extension : Extensions,
     Version : vs]

(***************************************************************************)
(* Record accessors.                                                       *)
(***************************************************************************)
\* The descriptor EmitSignatureTable prints for the type record R.
OpenCLType(R) ==
    [ID |-> Types[R].Name, VectorWidth |-> Types[R].VecWidth,
     AS |-> Types[R].AddrSpace, isPointer |-> Types[R].IsPointer]

\* getValueAsDef("Version") raises a fatal error when the field holds no def.
HasVersion(B) == Builtins[B].Version # <<>>

(***************************************************************************)
(* EmitDeclarations: the enum holds each type name once, in first-seen     *)
(* order.                                                                  *)
(***************************************************************************)
RECURSIVE EmitDeclarationsLoop(_, _, _)
EmitDeclarationsLoop(T, TypesSeen, out) ==
    IF T > Len(Types) THEN out
    ELSE EmitDeclarationsLoop(T + 1, TypesSeen \cup {Types[T].Name},
             IF Types[T].Name \notin TypesSeen
             THEN Append(out, Types[T].Name) ELSE out)

EmitDeclarations == EmitDeclarationsLoop(1, {}, <<>>)

(***************************************************************************)
(* GetOverloads.                                                           *)
(***************************************************************************)
\* Mutant: no registered signature is ever found.
FindSignature_Never(SigSet, Signature, k) == 0

\* std::find_if over SignatureSet: the first position whose signature equals
\* Signature (as a vector of Record*), 0 for end().
RECURSIVE FindSignature(_, _, _)
FindSignature(SigSet, Signature, k) ==
    IF k > Len(SigSet) THEN 0
    ELSE IF SigSet[k][1] = Signature THEN k
    ELSE FindSignature(SigSet, Signature, k + 1)

\* OverloadInfo.find(BName): the position of the key, 0 for end().
RECURSIVE FindName(_, _, _)
FindName(Info, BName, k) ==
    IF k > Len(Info) THEN 0
    ELSE IF Info[k][1] = BName THEN k
    ELSE FindName(Info, BName, k + 1)

\* Mutant: the cumulative index advances by one per registered signature.
GetOverloadsStep_CountsSignatures(st, B) ==
    LET BName == Builtins[B].Name
        Info1 == IF FindName(st.OverloadInfo, BName, 1) = 0
                 THEN Append(st.OverloadInfo, <<BName, <<>>>>)
                 ELSE st.OverloadInfo
        Signature == Builtins[B].Signature
        it == FindSignature(st.SignatureSet, Signature, 1)
        SignIndex == IF it = 0 THEN st.CumulativeSignIndex
                     ELSE st.SignatureSet[it][2]
        at == FindName(Info1, BName, 1)
    IN  [SignatureSet |->
             IF it = 0
             THEN Append(st.SignatureSet, <<Signature, st.CumulativeSignIndex>>)
             ELSE st.SignatureSet,
         CumulativeSignIndex |->
             IF it = 0 THEN st.CumulativeSignIndex + 1
             ELSE st.CumulativeSignIndex,
         OverloadInfo |->
             [Info1 EXCEPT ![at] = <<BName, Append(Info1[at][2], <<B, SignIndex>>)>>]]

\* Mutant: the cumulative index advances for a reused signature too.
GetOverloadsStep_AdvancesOnReuse(st, B) ==
    LET BName == Builtins[B].Name
        Info1 == IF FindName(st.OverloadInfo, BName, 1) = 0
                 THEN Append(st.OverloadInfo, <<BName, <<>>>>)
                 ELSE st.OverloadInfo
        Signature == Builtins[B].Signature
        it == FindSignature(st.SignatureSet, Signature, 1)
        SignIndex == IF it = 0 THEN st.CumulativeSignIndex
                     ELSE st.SignatureSet[it][2]
        at == FindName(Info1, BName, 1)
    IN  [SignatureSet |->
             IF it = 0
             THEN Append(st.SignatureSet, <<Signature, st.CumulativeSignIndex>>)
             ELSE st.SignatureSet,
         CumulativeSignIndex |->
             st.CumulativeSignIndex + Len(Signature),
         OverloadInfo |->
             [Info1 EXCEPT ![at] = <<BName, Append(Info1[at][2], <<B, SignIndex>>)>>]]

\* One iteration of the loop of GetOverloads, for the builtin record B.
GetOverloadsStep(st, B) ==
    LET BName == Builtins[B].Name
        Info1 == IF FindName(st.OverloadInfo, BName, 1) = 0
                 THEN Append(st.OverloadInfo, <<BName, <<>>>>)
                 ELSE st.OverloadInfo
        Signature == Builtins[B].Signature
        it == FindSignature(st.SignatureSet, Signature, 1)
        SignIndex == IF it = 0 THEN st.CumulativeSignIndex
                     ELSE st.SignatureSet[it][2]
        at == FindName(Info1, BName, 1)
    IN  [SignatureSet |->
             IF it = 0
             THEN Append(st.SignatureSet, <<Signature, st.CumulativeSignIndex>>)
             ELSE st.SignatureSet,
         CumulativeSignIndex |->
             IF it = 0 THEN st.CumulativeSignIndex + Len(Signature)
             ELSE st.CumulativeSignIndex,
         OverloadInfo |->
             [Info1 EXCEPT ![at] = <<BName, Append(Info1[at][2], <<B, SignIndex>>)>>]]

\* The loop of GetOverloads over the builtin records B .. End.
RECURSIVE GetOverloadsLoop(_, _, _)
GetOverloadsLoop(st, B, End) ==
    IF B > End THEN st
    ELSE GetOverloadsLoop(GetOverloadsStep(st, B), B + 1, End)

\* The members as the emitter is constructed, and CumulativeSignIndex = 0.
GetOverloadsStart ==
    [SignatureSet |-> <<>>, CumulativeSignIndex |-> 0, OverloadInfo |-> <<>>]

GetOverloads == GetOverloadsLoop(GetOverloadsStart, 1, Len(Builtins))

(***************************************************************************)
(* EmitSignatureTable.                                                     *)
(***************************************************************************)
RECURSIVE EmitSignature(_, _, _)
EmitSignature(Signature, k, out) ==
    IF k > Len(Signature) THEN out
    ELSE EmitSignature(Signature, k + 1, Append(out, OpenCLType(Signature[k])))

RECURSIVE EmitSignatureTableLoop(_, _, _)
EmitSignatureTableLoop(SigSet, k, out) ==
    IF k > Len(SigSet) THEN out
    ELSE EmitSignatureTableLoop(SigSet, k + 1, EmitSignature(SigSet[k][1], 1, out))

EmitSignatureTable(SigSet) == EmitSignatureTableLoop(SigSet, 1, <<>>)

(***************************************************************************)
(* EmitBuiltinTable.  The rows are written in the iteration order of       *)
(* OverloadInfo; the loop stops at the first row whose builtin has no      *)
(* Version def (fatal error), leaving the rows written before it.          *)
(***************************************************************************)
\* Mutant: the overloads in the order of their declarations, ungrouped.
FlatOverloads_DeclarationOrder(Info, k, out) ==
    LET all == UNION {{Info[i][2][j] : j \in 1..Len(Info[i][2])} :
                         i \in 1..Len(Info)}
    IN  [B \in 1..Cardinality(all) |-> CHOOSE p \in all : p[1] = B]

\* The overloads of OverloadInfo, flattened in iteration order.
RECURSIVE FlatOverloads(_, _, _)
FlatOverloads(Info, k, out) ==
    IF k > Len(Info) THEN out
    ELSE FlatOverloads(Info, k + 1, out \o Info[k][2])

BuiltinRow(Overload) ==
    [NumArgs |-> Len(Builtins[Overload[1]].Signature),
     ArgTableIndex |-> Overload[2],
     Extension |-> Builtins[Overload[1]].Extension,
     Version |-> Builtins[Overload[1]].Version[1]]

\* Mutant: an overload without a Version is passed over.
RECURSIVE EmitBuiltinTableLoop_SkipsVersionless(_, _, _)
EmitBuiltinTableLoop_SkipsVersionless(Flat, k, out) ==
    IF k > Len(Flat) THEN [rows |-> out, fatal |-> FALSE]
    ELSE IF ~HasVersion(Flat[k][1])
         THEN EmitBuiltinTableLoop_SkipsVersionless(Flat, k + 1, out)
    ELSE EmitBuiltinTableLoop_SkipsVersionless(Flat, k + 1,
             Append(out, BuiltinRow(Flat[k])))

RECURSIVE EmitBuiltinTableLoop(_, _, _)
EmitBuiltinTableLoop(Flat, k, out) ==
    IF k > Len(Flat) THEN [rows |-> out, fatal |-> FALSE]
    ELSE IF ~HasVersion(Flat[k][1]) THEN [rows |-> out, fatal |-> TRUE]
    ELSE EmitBuiltinTableLoop(Flat, k + 1, Append(out, BuiltinRow(Flat[k])))

EmitBuiltinTable(Info) == EmitBuiltinTableLoop(FlatOverloads(Info, 1, <<>>), 1, <<>>)

(***************************************************************************)
(* EmitStringMatcher.                                                      *)
(***************************************************************************)
RECURSIVE EmitStringMatcherLoop(_, _, _, _)
EmitStringMatcherLoop(Info, k, CumulativeIndex, out) ==
    IF k > Len(Info) THEN out
    ELSE EmitStringMatcherLoop(Info, k + 1, CumulativeIndex + Len(Info[k][2]),
             Append(out, <<Info[k][1], <<CumulativeIndex, Len(Info[k][2])>>>>))

\* Mutant: the block starts are counted from 0.
EmitStringMatcher_ZeroBased(Info) == EmitStringMatcherLoop(Info, 1, 0, <<>>)

EmitStringMatcher(Info) == EmitStringMatcherLoop(Info, 1, 1, <<>>)

(***************************************************************************)
(* EmitQualTypeFinder: one case per type name, decided by the first record *)
(* of that name; no case when that record's QTName is "null".              *)
(***************************************************************************)
\* Mutant: a type whose QTName is "null" is not recorded as seen.
RECURSIVE EmitQualTypeFinderLoop_NullNotSeen(_, _, _)
EmitQualTypeFinderLoop_NullNotSeen(T, TypesSeen, out) ==
    IF T > Len(Types) THEN out
    ELSE IF Types[T].Name \in TypesSeen \/ Types[T].QTName = "null"
         THEN EmitQualTypeFinderLoop_NullNotSeen(T + 1, TypesSeen, out)
    ELSE EmitQualTypeFinderLoop_NullNotSeen(T + 1,
             TypesSeen \cup {Types[T].Name},
             Append(out, <<Types[T].Name, Types[T].QTName>>))

RECURSIVE EmitQualTypeFinderLoop(_, _, _)
EmitQualTypeFinderLoop(T, TypesSeen, out) ==
    IF T > Len(Types) THEN out
    ELSE IF Types[T].Name \in TypesSeen
         THEN EmitQualTypeFinderLoop(T + 1, TypesSeen, out)
    ELSE IF Types[T].QTName = "null"
         THEN EmitQualTypeFinderLoop(T + 1, TypesSeen \cup {Types[T].Name}, out)
    ELSE EmitQualTypeFinderLoop(T + 1, TypesSeen \cup {Types[T].Name},
             Append(out, <<Types[T].Name, Types[T].QTName>>))

EmitQualTypeFinder == EmitQualTypeFinderLoop(1, {}, <<>>)

(***************************************************************************)
(* The generated functions.                                                *)
(***************************************************************************)
\* The code the StringMatcher generates: the statement paired with the
\* string equal to name, if there is one.
RECURSIVE StringMatcher(_, _, _)
StringMatcher(name, Pairs, k) ==
    IF k > Len(Pairs) THEN <<>>
    ELSE IF Pairs[k][1] = name THEN <<Pairs[k][2]>>
    ELSE StringMatcher(name, Pairs, k + 1)

\* Mutant: the fallback returns the 1-based start of an empty block.
isOpenCLBuiltin_NoSentinel(name) ==
    LET m == StringMatcher(name, ValidBuiltins, 1)
    IN  IF m # <<>> THEN m[1] ELSE <<1, 0>>

isOpenCLBuiltin(name) ==
    LET m == StringMatcher(name, ValidBuiltins, 1)
    IN  IF m # <<>> THEN m[1] ELSE <<0, 0>>

\* The types of the ASTContext: its builtin types and its type constructors.
ContextType(QT) == <<"Context", QT>>
getExtVectorType(RT, W) == <<"ExtVector", RT, W>>
getAddrSpaceQualType(RT, AS) == <<"AddrSpace", RT, AS>>
getPointerType(RT) == <<"Pointer", RT>>

\* The switch over Ty.ID: the concrete type of the matching case, the
\* initial value VoidTy when no case matches.
RECURSIVE QualSwitch(_, _)
QualSwitch(ID, k) ==
    IF k > Len(QualCases) THEN ContextType("VoidTy")
    ELSE IF QualCases[k][1] = ID THEN ContextType(QualCases[k][2])
    ELSE QualSwitch(ID, k + 1)

\* Mutant: the pointer wrap is applied before the vector wrap.
OCL2Qual_PointerFirst(Ty) ==
    LET RT0 == QualSwitch(Ty.ID, 1)
        RT1 == IF Ty.isPointer
               THEN getPointerType(getAddrSpaceQualType(RT0, Ty.AS))
               ELSE RT0
    IN  IF Ty.VectorWidth > 0 THEN getExtVectorType(RT1, Ty.VectorWidth)
        ELSE RT1

OCL2Qual(Ty) ==
    LET RT0 == QualSwitch(Ty.ID, 1)
        RT1 == IF Ty.VectorWidth > 0 THEN getExtVectorType(RT0, Ty.VectorWidth)
               ELSE RT0
    IN  IF Ty.isPointer THEN getPointerType(getAddrSpaceQualType(RT1, Ty.AS))
        ELSE RT1

(***************************************************************************)
(* Actions.                                                                *)
(***************************************************************************)
NoCall == [fn |-> "none"]

InitState ==
    /\ pc = "init"
    /\ SignatureSet = <<>>
    /\ OverloadInfo = <<>>
    /\ OS = <<>>
    /\ OpenCLTypeID = <<>>
    /\ OpenCLSignature = <<>>
    /\ OpenCLBuiltins = <<>>
    /\ ValidBuiltins = <<>>
    /\ QualCases = <<>>
    /\ call = NoCall

\* Catalogs of two plain type declarations, "float" and then either "float"
\* once more or "int", and up to MaxBuiltins builtins, every builtin with a
\* Version.
Init ==
    /\ Types \in {tt \in PlainTypeRecords \X PlainTypeRecords :
                     tt[1].Name = "float"}
    /\ Builtins \in SeqUpTo(BuiltinRecords(Len(Types), {<<v>> : v \in Versions}),
                            MaxBuiltins)
    /\ InitState

\* Catalogs of up to MaxTypes type declarations of any shape; when a type is
\* declared, one builtin whose signature names every declared type in turn.
InitQual ==
    /\ Types \in SeqUpTo(TypeRecords, MaxTypes)
    /\ Builtins \in
           IF Len(Types) = 0 THEN {<<>>}
           ELSE {<<b>> : b \in [Name : {"cos"},
                                Signature : {[k \in 1..Len(Types) |-> k]},
                                Extension : Extensions,
                                Version : {<<v>> : v \in Versions}]}
    /\ InitState

\* Scalar, non-pointer declarations of the one type name "float", with any
\* concrete type.
FloatTypeRecords ==
    {r \in TypeRecords : r.Name = "float" /\ r.VecWidth = 0
                         /\ r.AddrSpace = "Default" /\ ~r.IsPointer}

\* One-type signatures; the Version may be missing.
UnaryBuiltinRecords(n) ==
    {b \in BuiltinRecords(n, {<<>>} \cup {<<v>> : v \in Versions}) :
        Len(b.Signature) = 1}

\* Catalogs of two declarations of "float", which may disagree on the
\* concrete type, and up to MaxBuiltins builtins, which may lack a Version.
InitMalformed ==
    /\ Types \in FloatTypeRecords \X FloatTypeRecords
    /\ Builtins \in SeqUpTo(UnaryBuiltinRecords(Len(Types)), MaxBuiltins)
    /\ InitState

\* BuiltinNameEmitter::Emit, from the constructed emitter to its return or
\* to the fatal error that ends the run.
Emit ==
    /\ pc = "init"
    /\ LET st == GetOverloads
           bt == EmitBuiltinTable(st.OverloadInfo)
       IN  /\ SignatureSet' = st.SignatureSet
           /\ OverloadInfo' = st.OverloadInfo
           /\ OpenCLTypeID' = EmitDeclarations
           /\ OpenCLSignature' = EmitSignatureTable(st.SignatureSet)
           /\ OpenCLBuiltins' = bt.rows
           /\ IF bt.fatal
              THEN /\ pc' = "aborted"
                   /\ OS' = <<"header", "OpenCLTypeID", "structs",
                              "OpenCLSignature", "OpenCLBuiltins">>
                   /\ ValidBuiltins' = <<>>
                   /\ QualCases' = <<>>
              ELSE /\ pc' = "done"
                   /\ OS' = <<"header", "OpenCLTypeID", "structs",
                              "OpenCLSignature", "OpenCLBuiltins",
                              "isOpenCLBuiltin", "OCL2Qual">>
                   /\ ValidBuiltins' = EmitStringMatcher(st.OverloadInfo)
                   /\ QualCases' = EmitQualTypeFinder
    /\ UNCHANGED <<Types, Builtins, call>>

\* A consumer calls the generated isOpenCLBuiltin.
CallIsOpenCLBuiltin ==
    /\ pc = "done"
    /\ \E name \in LookupNames :
          call' = [fn |-> "isOpenCLBuiltin", name |-> name,
                   result |-> isOpenCLBuiltin(name)]
    /\ UNCHANGED <<Types, Builtins, pc, SignatureSet, OverloadInfo, OS,
                   OpenCLTypeID, OpenCLSignature, OpenCLBuiltins,
                   ValidBuiltins, QualCases>>

\* A consumer calls the generated OCL2Qual on an entry of OpenCLSignature.
CallOCL2Qual ==
    /\ pc = "done"
    /\ \E i \in 1..Len(OpenCLSignature) :
          call' = [fn |-> "OCL2Qual", Ty |-> OpenCLSignature[i],
                   result |-> OCL2Qual(OpenCLSignature[i])]
    /\ UNCHANGED <<Types, Builtins, pc, SignatureSet, OverloadInfo, OS,
                   OpenCLTypeID, OpenCLSignature, OpenCLBuiltins,
                   ValidBuiltins, QualCases>>

Next == Emit \/ CallIsOpenCLBuiltin \/ CallOCL2Qual

Spec == Init /\ [][Next]_vars

SpecQual == InitQual /\ [][Next]_vars

SpecMalformed == InitMalformed /\ [][Next]_vars

(***************************************************************************)
(* The catalog as declared, stated without the emitter's data structures.  *)
(***************************************************************************)
BuiltinIds == 1..Len(Builtins)
DeclaredNames == {Builtins[B].Name : B \in BuiltinIds}
DeclsOf(n) == {B \in BuiltinIds : Builtins[B].Name = n}
FirstDecl(n) == CHOOSE B \in DeclsOf(n) : \A B2 \in DeclsOf(n) : B <= B2
\* The j-th declared overload of the name n.
NthDecl(n, j) ==
    CHOOSE B \in DeclsOf(n) : Cardinality({B2 \in DeclsOf(n) : B2 < B}) = j - 1
\* The number of overloads of the names first seen before n.
CountBefore(n) ==
    Cardinality({B \in BuiltinIds :
                    FirstDecl(Builtins[B].Name) < FirstDecl(n)})
\* The 1-based row of declaration B when the declarations are grouped by
\* name, names in first-seen order, overloads in declaration order.
Pos(B) ==
    1 + CountBefore(Builtins[B].Name)
      + Cardinality({B2 \in DeclsOf(Builtins[B].Name) : B2 < B})

\* The type descriptor of the type declaration T.
TypeDescriptor(T) ==
    [ID |-> Types[T].Name, VectorWidth |-> Types[T].VecWidth,
     AS |-> Types[T].AddrSpace, isPointer |-> Types[T].IsPointer]
\* The declared signature of B as a sequence of type descriptors.
DeclaredSignature(B) ==
    [k \in 1..Len(Builtins[B].Signature) |->
        TypeDescriptor(Builtins[B].Signature[k])]
DescriptorsOf(Signature) ==
    [k \in 1..Len(Signature) |-> TypeDescriptor(Signature[k])]

\* The N entries of OpenCLSignature from the 0-based position S.
RunAt(S, N) == [k \in 1..N |-> OpenCLSignature[S + k]]

\* The row is the overload declaration B: its arity, extension and version,
\* and the signature its start index points at.
RowIsDecl(row, B) ==
    /\ row.NumArgs = Len(Builtins[B].Signature)
    /\ row.Extension = Builtins[B].Extension
    /\ <<row.Version>> = Builtins[B].Version
    /\ row.ArgTableIndex >= 0
    /\ row.ArgTableIndex + row.NumArgs <= Len(OpenCLSignature)
    /\ RunAt(row.ArgTableIndex, row.NumArgs) = DeclaredSignature(B)

RECURSIVE SumLen(_)
SumLen(S) ==
    IF S = {} THEN 0
    ELSE LET s == CHOOSE x \in S : TRUE IN Len(s) + SumLen(S \ {s})

IsLookup == call.fn = "isOpenCLBuiltin"
IsProjection == call.fn = "OCL2Qual"

(***************************************************************************)
(* Claims.                                                                 *)
(***************************************************************************)

\* C1: for a name present in the catalog the lookup returns (start, count)
\* with start >= 1, count the number of overloads declared for the name,
\* start one more than the number of overloads of the names first seen
\* before it, and the rows at 0-based positions [start-1, start-1+count) of
\* OpenCLBuiltins are the name's overloads in declaration order.
C1_LookupFindsBlock ==
    (IsLookup /\ call.name \in DeclaredNames) =>
        LET start == call.result[1]
            count == call.result[2]
        IN  /\ start >= 1
            /\ count = Cardinality(DeclsOf(call.name))
            /\ start = 1 + CountBefore(call.name)
            /\ start - 1 + count <= Len(OpenCLBuiltins)
            /\ \A j \in 1..count :
                  RowIsDecl(OpenCLBuiltins[start - 1 + j], NthDecl(call.name, j))

\* The second name of an interleaved catalog (cos, sin, cos) is looked up
\* and its block starts behind both overloads of the first name.
C1_Witness ==
    /\ IsLookup
    /\ Len(Builtins) = 3
    /\ Builtins[1].Name = "cos" /\ Builtins[2].Name = "sin"
    /\ Builtins[3].Name = "cos"
    /\ call.name = "sin"
    /\ call.result = <<3, 1>>

\* C2: for a string that names no builtin of the catalog the lookup returns
\* the sentinel (0, 0); a catalog without builtins gives two empty tables.
C2_AbsentNameIsSentinel ==
    /\ (IsLookup /\ call.name \notin DeclaredNames) => call.result = <<0, 0>>
    /\ (pc = "done" /\ Builtins = <<>>) =>
          (OpenCLSignature = <<>> /\ OpenCLBuiltins = <<>>)

\* A name is looked up that a non-empty catalog does not declare.
C2_Witness ==
    /\ IsLookup
    /\ DeclaredNames = {"cos"}
    /\ call.name = "sin"
    /\ call.result = <<0, 0>>

\* C3: after the pass every row of OpenCLBuiltins, with start S and arity N,
\* has S + N within OpenCLSignature, and the entries at 0-based positions
\* [S, S+N) are the type descriptors of the overload's declared signature,
\* in order.
C3_RowsPointAtTheirSignature ==
    pc = "done" =>
        \A B \in BuiltinIds :
            Pos(B) <= Len(OpenCLBuiltins) =>
                LET row == OpenCLBuiltins[Pos(B)]
                    S == row.ArgTableIndex
                    N == row.NumArgs
                IN  /\ N = Len(Builtins[B].Signature)
                    /\ S >= 0 /\ S + N <= Len(OpenCLSignature)
                    /\ \A k \in 1..N :
                          OpenCLSignature[S + k]
                              = TypeDescriptor(Builtins[B].Signature[k])

\* A row of arity 2 over two different types starts behind another signature.
C3_Witness ==
    /\ pc = "done"
    /\ \E r \in 1..Len(OpenCLBuiltins) :
          /\ OpenCLBuiltins[r].NumArgs = 2
          /\ OpenCLBuiltins[r].ArgTableIndex = 1
          /\ OpenCLSignature[2] # OpenCLSignature[3]

\* The signatures of the catalog as lists of type declarations, and as
\* lists of type descriptors.
RecordSignatures == {Builtins[B].Signature : B \in BuiltinIds}
StructuralSignatures == {DeclaredSignature(B) : B \in BuiltinIds}
RegisteredSignatures == {SignatureSet[i][1] : i \in 1..Len(SignatureSet)}

\* C4 as claimed: OpenCLSignature holds each structurally distinct
\* signature (descriptors equal field by field, whichever type declaration
\* they come from) exactly once, and its length is the sum of the arities
\* of the structurally distinct signatures.
C4_StructuralDedup ==
    pc = "done" =>
        /\ Len(OpenCLSignature) = SumLen(StructuralSignatures)
        /\ \A i, j \in 1..Len(SignatureSet) :
              i # j => DescriptorsOf(SignatureSet[i][1])
                           # DescriptorsOf(SignatureSet[j][1])

\* C4 as amended: OpenCLSignature holds each signature exactly once, where
\* two signatures are equal iff they list the same type declarations in the
\* same order; its length is the sum of the arities of the signatures
\* distinct in that sense, and each registered signature's descriptors
\* stand at its registered start.
C4_DeclarationDedup ==
    pc = "done" =>
        /\ RegisteredSignatures = RecordSignatures
        /\ Len(SignatureSet) = Cardinality(RecordSignatures)
        /\ Len(OpenCLSignature) = SumLen(RecordSignatures)
        /\ \A i \in 1..Len(SignatureSet) :
              /\ SignatureSet[i][2] + Len(SignatureSet[i][1])
                     <= Len(OpenCLSignature)
              /\ RunAt(SignatureSet[i][2], Len(SignatureSet[i][1]))
                     = DescriptorsOf(SignatureSet[i][1])

\* Two builtins declare the same signature, a third one a signature with
\* equal descriptors over another type declaration.
C4_Witness ==
    /\ pc = "done"
    /\ \E B1, B2, B3 \in BuiltinIds :
          /\ B1 < B2
          /\ Builtins[B1].Signature = Builtins[B2].Signature
          /\ Builtins[B3].Signature # Builtins[B1].Signature
          /\ DeclaredSignature(B3) = DeclaredSignature(B1)
    /\ Len(SignatureSet) = 2

\* C5 as claimed: two overload declarations with structurally equal
\* signatures have rows with the same signature start.
C5_StructuralSharing ==
    pc = "done" =>
        \A B1, B2 \in BuiltinIds :
            DeclaredSignature(B1) = DeclaredSignature(B2) =>
                OpenCLBuiltins[Pos(B1)].ArgTableIndex
                    = OpenCLBuiltins[Pos(B2)].ArgTableIndex

\* C5 as amended: two overload declarations (of one name or of two) whose
\* signatures list the same type declarations have rows with the same
\* signature start, and the later one registers no signature and appends
\* nothing to the signature table.
C5_DeclarationSharing ==
    pc = "done" =>
        \A B1, B2 \in BuiltinIds :
            (B1 < B2 /\ Builtins[B1].Signature = Builtins[B2].Signature) =>
                LET before == GetOverloadsLoop(GetOverloadsStart, 1, B2 - 1)
                    after == GetOverloadsStep(before, B2)
                IN  /\ OpenCLBuiltins[Pos(B1)].ArgTableIndex
                           = OpenCLBuiltins[Pos(B2)].ArgTableIndex
                    /\ after.SignatureSet = before.SignatureSet
                    /\ after.CumulativeSignIndex = before.CumulativeSignIndex
                    /\ EmitSignatureTable(after.SignatureSet)
                           = EmitSignatureTable(before.SignatureSet)

\* Overloads of two different names share a signature that was registered
\* behind another one.
C5_Witness ==
    /\ pc = "done"
    /\ \E B1, B2 \in BuiltinIds :
          /\ B1 < B2
          /\ Builtins[B1].Name # Builtins[B2].Name
          /\ Builtins[B1].Signature = Builtins[B2].Signature
          /\ OpenCLBuiltins[Pos(B2)].ArgTableIndex > 0
          /\ OpenCLBuiltins[Pos(B1)].ArgTableIndex
                 = OpenCLBuiltins[Pos(B2)].ArgTableIndex

\* C6: OpenCLBuiltins has one row per overload declaration, in one block per
\* name; the blocks stand in the order the names were first seen and the
\* rows of a block in declaration order.
C6_OneRowPerDeclaration ==
    pc = "done" =>
        /\ Len(OpenCLBuiltins) = Len(Builtins)
        /\ Len(FlatOverloads(OverloadInfo, 1, <<>>)) = Len(Builtins)
        /\ \A B \in BuiltinIds :
              /\ FlatOverloads(OverloadInfo, 1, <<>>)[Pos(B)][1] = B
              /\ RowIsDecl(OpenCLBuiltins[Pos(B)], B)

\* The declarations of two names are interleaved (cos, sin, cos) and the
\* two overloads of cos have the same signature.
C6_Witness ==
    /\ pc = "done"
    /\ Len(Builtins) = 3
    /\ Builtins[1].Name = "cos" /\ Builtins[2].Name = "sin"
    /\ Builtins[3].Name = "cos"
    /\ Builtins[1].Signature = Builtins[3].Signature
    /\ Builtins[2].Signature # Builtins[1].Signature
    /\ Len(OpenCLBuiltins) = 3
    /\ OpenCLBuiltins[1] = OpenCLBuiltins[2]

\* C9: for a successful lookup the returned <Index, Len> indexes
\* OpenCLBuiltins directly: the entries from OpenCLBuiltins[Index] on (the
\* first entry of the table being OpenCLBuiltins[0]) are the overloads of
\* the name.
C9_IndexIsDirect ==
    (IsLookup /\ call.result # <<0, 0>>) =>
        LET Index == call.result[1]
            Length == call.result[2]
        IN  \A j \in 0..(Length - 1) :
                /\ Index + j + 1 <= Len(OpenCLBuiltins)
                /\ RowIsDecl(OpenCLBuiltins[Index + j + 1],
                             NthDecl(call.name, j + 1))

\* The declaration that decides the concrete type of the type name ID: the
\* first one of that name.
FirstType(ID) ==
    CHOOSE T \in 1..Len(Types) :
        /\ Types[T].Name = ID
        /\ \A T2 \in 1..(T - 1) : Types[T2].Name # ID

\* The vector wrap and the address-space and pointer wrap of Ty around base.
Wrapped(base, Ty) ==
    LET v == IF Ty.VectorWidth > 0 THEN <<"ExtVector", base, Ty.VectorWidth>>
             ELSE base
    IN  IF Ty.isPointer THEN <<"Pointer", <<"AddrSpace", v, Ty.AS>>>> ELSE v

BaseTypes == {<<"Context", q>> : q \in (QTNames \ {"null"}) \cup {"VoidTy"}}

\* C7: the projection of a descriptor is base, vector(base), pointer to
\* address-space-qualified base or pointer to address-space-qualified
\* vector(base): the vector wrap is applied iff VectorWidth > 0 and before
\* the pointer wrap, which is applied iff isPointer; without isPointer the
\* address space does not change the result.
C7_ProjectionOrder ==
    IsProjection =>
        /\ \E base \in BaseTypes : call.result = Wrapped(base, call.Ty)
        /\ ~call.Ty.isPointer =>
              \A a \in AddrSpaces :
                  OCL2Qual([call.Ty EXCEPT !.AS = a]) = call.result

\* A pointer to a vector of float in the Global address space is projected.
C7_Witness ==
    /\ IsProjection
    /\ call.Ty.isPointer /\ call.Ty.VectorWidth = 4 /\ call.Ty.AS = "Global"
    /\ call.result = <<"Pointer", <<"AddrSpace",
                          <<"ExtVector", <<"Context", "FloatTy">>, 4>>,
                          "Global">>>>

\* C10 as claimed: a descriptor whose type name has a declaration with the
\* concrete type name "null" is projected with the default base VoidTy, the
\* wraps applied to it.
C10_NullDeclarationIsVoid ==
    (IsProjection /\ \E T \in 1..Len(Types) :
                        Types[T].Name = call.Ty.ID /\ Types[T].QTName = "null")
        => call.result = Wrapped(<<"Context", "VoidTy">>, call.Ty)

\* C10 as amended: the first declaration of a type name decides the base of
\* every descriptor of that name: VoidTy, with the wraps still applied, when
\* its concrete type name is "null", and its concrete type otherwise.
C10_FirstDeclarationDecides ==
    IsProjection =>
        LET QT == Types[FirstType(call.Ty.ID)].QTName
        IN  call.result =
                Wrapped(<<"Context", IF QT = "null" THEN "VoidTy" ELSE QT>>,
                        call.Ty)

\* A vector descriptor is projected whose type name is first declared with
\* "null" and declared again with a concrete type.
C10_Witness ==
    /\ IsProjection
    /\ Len(Types) = 2
    /\ Types[1].Name = Types[2].Name
    /\ Types[1].QTName = "null" /\ Types[2].QTName = "FloatTy"
    /\ call.Ty = TypeDescriptor(2)
    /\ call.Ty.VectorWidth = 4
    /\ call.result = <<"ExtVector", <<"Context", "VoidTy">>, 4>>

\* Two declarations of one type name disagree on the concrete type.
InconsistentTypes ==
    \E T1, T2 \in 1..Len(Types) :
        Types[T1].Name = Types[T2].Name /\ Types[T1].QTName # Types[T2].QTName
\* A builtin has no Version.
MissingVersion == \E B \in BuiltinIds : Builtins[B].Version = <<>>
\* The rows written before the first overload without a Version.
RowsBeforeFatal ==
    LET bad == {Pos(B) : B \in {B2 \in BuiltinIds : Builtins[B2].Version = <<>>}}
    IN  (CHOOSE r \in bad : \A r2 \in bad : r <= r2) - 1

\* The enumeration holds each declared type name once, in first-seen order.
EnumIsFirstSeenNames ==
    /\ {OpenCLTypeID[i] : i \in 1..Len(OpenCLTypeID)}
           = {Types[T].Name : T \in 1..Len(Types)}
    /\ \A i, j \in 1..Len(OpenCLTypeID) :
          i < j => FirstType(OpenCLTypeID[i]) < FirstType(OpenCLTypeID[j])
\* The projector has one case per type name whose first declaration has a
\* concrete type, and the case gives that concrete type.
CasesAreFirstDeclarations ==
    /\ {QualCases[i] : i \in 1..Len(QualCases)}
           = {<<Types[T].Name, Types[T].QTName>> :
                 T \in {T2 \in 1..Len(Types) :
                           /\ FirstType(Types[T2].Name) = T2
                           /\ Types[T2].QTName # "null"}}
    /\ \A i, j \in 1..Len(QualCases) :
          i # j => QualCases[i][1] # QualCases[j][1]

\* C8 as claimed: a catalog with inconsistent declarations of one type or
\* with a missing version is detected and aborts the generation, and the
\* output document is not produced: the run ends without the dispatcher
\* and the projector.
C8_MalformedAborts ==
    (pc # "init" /\ (InconsistentTypes \/ MissingVersion)) =>
        /\ pc = "aborted"
        /\ \A i \in 1..Len(OS) : OS[i] \notin {"isOpenCLBuiltin", "OCL2Qual"}

\* C8 as amended: the generation aborts iff a builtin has no Version; it
\* aborts while the overload table is written, with the enumeration and the
\* signature table complete, the overload table cut before the first row
\* without a Version, and no dispatcher and no projector; inconsistent
\* declarations of one type are not detected: the generation completes and
\* the first declaration decides.
C8_AbortOnMissingVersionOnly ==
    pc # "init" =>
        /\ (pc = "aborted") <=> MissingVersion
        /\ EnumIsFirstSeenNames
        /\ Len(OpenCLSignature) = SumLen(RecordSignatures)
        /\ pc = "aborted" =>
              /\ OS = <<"header", "OpenCLTypeID", "structs",
                        "OpenCLSignature", "OpenCLBuiltins">>
              /\ Len(OpenCLBuiltins) = RowsBeforeFatal
              /\ \A B \in BuiltinIds :
                    Pos(B) <= RowsBeforeFatal =>
                        RowIsDecl(OpenCLBuiltins[Pos(B)], B)
              /\ ValidBuiltins = <<>> /\ QualCases = <<>>
        /\ pc = "done" =>
              /\ OS = <<"header", "OpenCLTypeID", "structs",
                        "OpenCLSignature", "OpenCLBuiltins",
                        "isOpenCLBuiltin", "OCL2Qual">>
              /\ Len(OpenCLBuiltins) = Len(Builtins)
              /\ CasesAreFirstDeclarations

\* The generation aborted behind a written row, on a catalog whose type
\* declarations are inconsistent as well.
C8_Witness ==
    /\ pc = "aborted"
    /\ InconsistentTypes
    /\ Len(OpenCLBuiltins) = 1
    /\ Len(Builtins) = 3

====
